---- MODULE Spec2Model ----
(***************************************************************************)
(* GraphWalker benchmark analysis: the report assembler (ReportFactory),   *)
(* the chart renderer's driver (BenchmarkPlotter.create_plots) and the     *)
(* run loader (BenchmarkRun.from_files).                                   *)
(*                                                                         *)
(* Python values are modelled as follows.                                  *)
(*   str that is compared or lower-cased : a sequence of one-character     *)
(*                                         strings                         *)
(*   dict (insertion ordered)            : a sequence of records with a    *)
(*                                         key field (name)                *)
(*   list                                : a sequence                      *)
(*   None / an absent list               : the empty sequence              *)
(*   a raised exception                  : the exc field of a result       *)
(*                                         record ("None" when nothing     *)
(*                                         was raised)                     *)
(*   the output directory                : a function from the paths that  *)
(*                                         exist (sequences of path        *)
(*                                         components, relative to         *)
(*                                         output) to their content        *)
(***************************************************************************)
EXTENDS Integers, Sequences, FiniteSets, TLC

VARIABLES
    benchmark,          \* the Benchmark object handed to the calls
    output,             \* the content of the output directory
    plotter_benchmark,  \* BenchmarkPlotter.benchmark (class attribute)
    call,               \* the last call made and its arguments
    result,             \* what the last call returned or raised
    log,                \* the file-system, terminal and pyplot events of the last call, in order
    files,              \* the three input files of the run loader
    figures             \* the figures pyplot holds open, the last one current

vars == <<benchmark, output, plotter_benchmark, call, result, log, files, figures>>

(***************************************************************************)
(* Bounds of the model.                                                    *)
(***************************************************************************)
NumCoverages == 2
MaxRunGroups == 2

GeneratorNames == <<"Random", "Weighted">>
Coverages == {50 * k : k \in 1..NumCoverages}

NoException == "None"

(***************************************************************************)
(* Python built-ins used by the code.                                      *)
(***************************************************************************)
UpperCase ==
    [c \in {"A", "D", "E", "F", "H", "L", "M", "N", "P", "R", "S", "T", "W", "X", "Y"} |->
        CASE c = "A" -> "a" [] c = "D" -> "d" [] c = "E" -> "e" [] c = "F" -> "f"
          [] c = "H" -> "h" [] c = "L" -> "l" [] c = "M" -> "m" [] c = "N" -> "n"
          [] c = "P" -> "p" [] c = "R" -> "r" [] c = "S" -> "s" [] c = "T" -> "t"
          [] c = "W" -> "w" [] c = "X" -> "x" [] c = "Y" -> "y"]

\* str.lower(): every cased character is replaced by its lower-case form.
lower(s) ==
    [i \in 1..Len(s) |-> IF s[i] \in DOMAIN UpperCase THEN UpperCase[s[i]] ELSE s[i]]

\* all(list)
all(bools) == \A i \in 1..Len(bools) : bools[i]

\* x in list
InList(x, list) == \E i \in 1..Len(list) : list[i] = x

\* key in dict
HasKey(dict, key) == \E i \in 1..Len(dict) : dict[i].name = key

\* dict[key]
Lookup(dict, key) == dict[CHOOSE i \in 1..Len(dict) : dict[i].name = key].value

\* dict[key] = value: a new key is appended, an old key keeps its position.
DictSet(dict, key, value) ==
    IF HasKey(dict, key)
    THEN [i \in 1..Len(dict) |->
            IF dict[i].name = key THEN [name |-> key, value |-> value] ELSE dict[i]]
    ELSE Append(dict, [name |-> key, value |-> value])

\* dict.keys(), in insertion order
Keys(dict) == [i \in 1..Len(dict) |-> dict[i].name]

RECURSIVE InsertSorted(_, _)
InsertSorted(x, sorted) ==
    IF sorted = <<>> THEN <<x>>
    ELSE IF x < Head(sorted) THEN <<x>> \o sorted
    ELSE <<Head(sorted)>> \o InsertSorted(x, Tail(sorted))

\* list.sort(): ascending, stable
RECURSIVE Sort(_)
Sort(list) ==
    IF list = <<>> THEN <<>>
    ELSE InsertSorted(list[Len(list)], Sort(SubSeq(list, 1, Len(list) - 1)))

\* Binding the positional arguments of a call to a function's parameters:
\* too many arguments, or a parameter without default left unbound, raise
\* TypeError before the body runs.
BindArguments(params, ndefaults, args) ==
    IF Len(args) > Len(params) \/ Len(args) < Len(params) - ndefaults
    THEN [exc |-> "TypeError"]
    ELSE [exc |-> NoException, bound |-> args]

(***************************************************************************)
(* Numbers.  An int or float of the program is a fraction in lowest terms  *)
(* with a positive denominator, so that a true division and a truncation   *)
(* do what they do in the program.                                         *)
(***************************************************************************)
Abs(x) == IF x < 0 THEN -x ELSE x

RECURSIVE GCD(_, _)
GCD(a, b) == IF b = 0 THEN a ELSE GCD(b, a % b)

Number(num, den) ==
    LET g == GCD(Abs(num), den)
    IN  [num |-> IF num < 0 THEN -(Abs(num) \div g) ELSE num \div g, den |-> den \div g]

Integer(i) == Number(i, 1)

\* a + b, a - b, a * b
add(a, b) == Number(a.num * b.den + b.num * a.den, a.den * b.den)
sub(a, b) == Number(a.num * b.den - b.num * a.den, a.den * b.den)
mul(a, b) == Number(a.num * b.num, a.den * b.den)

\* a / b: true division, ZeroDivisionError on a zero divisor.
truediv(a, b) ==
    IF b.num = 0
    THEN [exc |-> "ZeroDivisionError", value |-> Integer(0)]
    ELSE [exc |-> NoException,
          value |-> Number(IF b.num < 0 THEN -(a.num * b.den) ELSE a.num * b.den,
                           a.den * Abs(b.num))]

\* a < b
less(a, b) == a.num * b.den < b.num * a.den

\* int(a): truncation towards zero
int(a) == IF a.num < 0 THEN -(Abs(a.num) \div a.den) ELSE a.num \div a.den

RECURSIVE Sum(_)
Sum(list) == IF list = <<>> THEN 0 ELSE Head(list) + Sum(Tail(list))

RECURSIVE Min(_)
Min(list) ==
    IF Len(list) = 1 THEN list[1]
    ELSE IF Head(list) < Min(Tail(list)) THEN Head(list) ELSE Min(Tail(list))

RECURSIVE Max(_)
Max(list) ==
    IF Len(list) = 1 THEN list[1]
    ELSE IF Head(list) > Max(Tail(list)) THEN Head(list) ELSE Max(Tail(list))

(***************************************************************************)
(* The data model: generator groups, run groups, benchmarks.               *)
(***************************************************************************)
\* BenchmarkGenerator: one (generator, stop-coverage) group with the derived
\* attributes of its runs.  times and sizes list the generation time and the
\* test-suite size of each run, vertex_visits and edge_visits map each
\* identifier to its visit count summed over the runs.
BenchmarkGenerator(stop_coverage, times, sizes, vertex_visits, edge_visits) ==
    [stop_coverage |-> stop_coverage,
     total_generation_time |-> Integer(Sum(times)),
     average_generation_time |-> Number(Sum(times), Len(times)),
     min_generation_time |-> Integer(Min(times)),
     max_generation_time |-> Integer(Max(times)),
     total_test_suite_size |-> Integer(Sum(sizes)),
     average_test_suite_size |-> Number(Sum(sizes), Len(sizes)),
     min_test_suite_size |-> Integer(Min(sizes)),
     max_test_suite_size |-> Integer(Max(sizes)),
     total_vertex_visits_individual |->
         [i \in DOMAIN vertex_visits |->
             [name |-> vertex_visits[i].name, value |-> Integer(vertex_visits[i].value)]],
     average_vertex_visits_individual |->
         [i \in DOMAIN vertex_visits |->
             [name |-> vertex_visits[i].name,
              value |-> Number(vertex_visits[i].value, Len(times))]],
     total_edge_visits_individual |->
         [i \in DOMAIN edge_visits |->
             [name |-> edge_visits[i].name, value |-> Integer(edge_visits[i].value)]],
     average_edge_visits_individual |->
         [i \in DOMAIN edge_visits |->
             [name |-> edge_visits[i].name,
              value |-> Number(edge_visits[i].value, Len(times))]]]

\* Visit counts of the model's vertices and edges over the runs of a group.
Visits ==
    { [vertex |-> << [name |-> "v1", value |-> 3], [name |-> "v2", value |-> 0],
                     [name |-> "v3", value |-> 1] >>,
       edge |-> << [name |-> "e1", value |-> 1], [name |-> "e2", value |-> 5] >>],
      [vertex |-> << [name |-> "v1", value |-> 1], [name |-> "v2", value |-> 4],
                     [name |-> "v3", value |-> 4] >>,
       edge |-> << [name |-> "e1", value |-> 2], [name |-> "e2", value |-> 0] >>] }

\* The group the structural runs use at a stop-coverage: two runs.
DefaultGenerator(stop_coverage) ==
    BenchmarkGenerator(stop_coverage, <<stop_coverage, stop_coverage + 10>>, <<4, 6>>,
                       << [name |-> "v1", value |-> 3], [name |-> "v2", value |-> 0],
                          [name |-> "v3", value |-> 1] >>,
                       << [name |-> "e1", value |-> 1], [name |-> "e2", value |-> 5] >>)

\* Benchmark.report.model: the vertex and edge counts of the model.
DefaultModel == [vertices |-> 3, edges |-> 2]

\* The stop-coverage values of one generator's groups: every group of a
\* generator has its own stop-coverage, listed ascending or descending.
CoverageLists ==
    {s \in UNION {[1..n -> Coverages] : n \in 1..NumCoverages} :
        \/ \A i \in 1..(Len(s) - 1) : s[i] < s[i + 1]
        \/ \A i \in 1..(Len(s) - 1) : s[i] > s[i + 1]}

\* The groups of one generator.
GeneratorLists ==
    {[i \in DOMAIN s |-> DefaultGenerator(s[i])] : s \in CoverageLists}

\* Benchmark.report.generators_grouped: generator name -> its groups.
GroupedGenerators ==
    {SelectSeq([i \in DOMAIN GeneratorNames |-> [name |-> GeneratorNames[i], value |-> f[i]]],
               LAMBDA e : e.value # <<>>) :
        f \in [DOMAIN GeneratorNames -> GeneratorLists \cup {<<>>}]}

Algorithms == {GeneratorNames[i] : i \in DOMAIN GeneratorNames}

\* RunGroup: the test-execution runs of one (algorithm, stop-coverage) with
\* the durations of the plotted aggregates.
TestRuns(algorithm, stop_coverage, successful_runs) ==
    [algorithm |-> algorithm, stop_coverage |-> stop_coverage,
     successful_runs |-> successful_runs,
     average_test_duration |-> Number(3 * stop_coverage, 2),
     minimum_test_duration |-> Integer(stop_coverage),
     maximum_test_duration |-> Integer(2 * stop_coverage)]

RunGroup ==
    {TestRuns(a, c, s) : a \in Algorithms, c \in Coverages, s \in BOOLEAN}

NameIndex(name) == CHOOSE i \in DOMAIN GeneratorNames : GeneratorNames[i] = name

\* Benchmark.run_groups: one run group per (algorithm, stop-coverage), held
\* sorted by coverage.
RunGroupLists ==
    {s \in UNION {[1..n -> RunGroup] : n \in 0..MaxRunGroups} :
        \A i \in 1..(Len(s) - 1) :
            \/ s[i].stop_coverage < s[i + 1].stop_coverage
            \/ /\ s[i].stop_coverage = s[i + 1].stop_coverage
               /\ NameIndex(s[i].algorithm) < NameIndex(s[i + 1].algorithm)}

\* A run group executes the test suites of one generator group.
Executes(run_group, generators_grouped) ==
    \E i \in DOMAIN generators_grouped :
        /\ generators_grouped[i].name = run_group.algorithm
        /\ \E j \in DOMAIN generators_grouped[i].value :
              generators_grouped[i].value[j].stop_coverage = run_group.stop_coverage

Benchmarks ==
    {b \in {[name |-> "benchmark",
             report |-> [generators_grouped |-> g, model |-> DefaultModel],
             run_groups |-> r] : g \in GroupedGenerators, r \in RunGroupLists} :
        \A i \in DOMAIN b.run_groups :
            Executes(b.run_groups[i], b.report.generators_grouped)}

RECURSIVE InsertByCoverage(_, _)
InsertByCoverage(x, sorted) ==
    IF sorted = <<>> THEN <<x>>
    ELSE IF x.stop_coverage < Head(sorted).stop_coverage THEN <<x>> \o sorted
    ELSE <<Head(sorted)>> \o InsertByCoverage(x, Tail(sorted))

RECURSIVE SortByCoverage(_)
SortByCoverage(list) ==
    IF list = <<>> THEN <<>>
    ELSE InsertByCoverage(list[Len(list)], SortByCoverage(SubSeq(list, 1, Len(list) - 1)))

\* Benchmark.run_groups_sorted
run_groups_sorted(b) == SortByCoverage(b.run_groups)

(***************************************************************************)
(* Grouping/filter utility and statistics builder.                         *)
(***************************************************************************)
\* filter_grouped_generators: the whitelist, when non-empty, keeps only the
\* names it lists; then the blacklist, when non-empty, removes the names it
\* lists. Names that match nothing are ignored.
filter_grouped_generators(generators_grouped, whitelist, blacklist) ==
    LET whitelisted ==
            IF whitelist # <<>>
            THEN SelectSeq(generators_grouped, LAMBDA e : InList(e.name, whitelist))
            ELSE generators_grouped
    IN  IF blacklist # <<>>
        THEN SelectSeq(whitelisted, LAMBDA e : ~InList(e.name, blacklist))
        ELSE whitelisted

\* BenchmarkStatistics.create_statistics: the summary keyed by generator
\* name and then by stop-coverage.
create_statistics(grouped_generators) ==
    [i \in DOMAIN grouped_generators |->
        [name |-> grouped_generators[i].name,
         value |-> [j \in DOMAIN grouped_generators[i].value |->
                      [name |-> grouped_generators[i].value[j].stop_coverage,
                       value |-> "statistics"]]]]

(***************************************************************************)
(* pyplot.  plt is the state of matplotlib.pyplot: the open figures, the   *)
(* last one current, and the pyplot calls made so far.  A figure is        *)
(* represented by what is drawn on it: the chart function that opened it,  *)
(* its extra argument and the series, in drawing order.  A rendered image  *)
(* is the figure it was saved from.                                        *)
(***************************************************************************)
Image(chart, arg, series) == [chart |-> chart, arg |-> arg, series |-> series]

\* One drawn series: ax.bar / ax.plot / ax.hist with label=...
Series(kind, label, x, y, width) ==
    [kind |-> kind, label |-> label, x |-> x, y |-> y, width |-> width]

NoPlots == [figs |-> <<>>, log |-> <<>>]

\* The pyplot call recorded with the number of figures it leaves open.
Called(plt, event, path, figs) ==
    [figs |-> figs,
     log |-> Append(plt.log, [event |-> event, path |-> path, open |-> Len(figs)])]

\* The current figure is left open.
close_nothing(plt) ==
    Called(plt, "close", <<>>, plt.figs)

\* plt.close(): closes the current figure, if there is one; figures opened
\* before it stay open.
close(plt) ==
    Called(plt, "close", <<>>,
           IF plt.figs = <<>> THEN <<>> ELSE SubSeq(plt.figs, 1, Len(plt.figs) - 1))

\* fig, ax = plt.subplots() in a chart function: a new figure, made current.
subplots(plt, chart, arg) ==
    Called(plt, "subplots", <<chart>>, Append(plt.figs, Image(chart, arg, <<>>)))

\* The series drawn on the current figure.
draw(plt, series) ==
    [figs |-> [plt.figs EXCEPT ![Len(plt.figs)].series = series],
     log |-> plt.log]

\* save_plot_bytesio(): plt.savefig writes the current figure (a new, blank
\* one when none is open) into the BytesIO it returns.
save_plot_bytesio(plt) ==
    IF plt.figs = <<>>
    THEN [image |-> Image("", <<>>, <<>>),
          plt |-> Called(plt, "savefig", <<>>, <<Image("", <<>>, <<>>)>>)]
    ELSE [image |-> plt.figs[Len(plt.figs)],
          plt |-> Called(plt, "savefig", <<>>, plt.figs)]

(***************************************************************************)
(* BenchmarkPlotter                                                        *)
(***************************************************************************)
\* get_plot_functions(): chart name -> chart function, in dict order.  Every
\* chart function draws with _plot_bars, except plot_coverage_vs_time, which
\* draws with _plot_lines.
get_plot_functions ==
    << [name |-> "Total Time", value |-> "bars"],
       [name |-> "Total Size", value |-> "bars"],
       [name |-> "Average Time", value |-> "bars"],
       [name |-> "Average Size", value |-> "bars"],
       [name |-> "Minimum Time", value |-> "bars"],
       [name |-> "Maximum Time", value |-> "bars"],
       [name |-> "Minimum Size", value |-> "bars"],
       [name |-> "Maximum Size", value |-> "bars"],
       [name |-> "Max-Min Size", value |-> "bars"],
       [name |-> "Max-Min Time", value |-> "bars"],
       [name |-> "Coverage vs Time", value |-> "lines"],
       [name |-> "Size over Time", value |-> "bars"],
       [name |-> "Average Vertex Visits %", value |-> "bars"],
       [name |-> "Average Edge Visits %", value |-> "bars"],
       [name |-> "Average vs Minimum Time", value |-> "bars"],
       [name |-> "Average vs Minimum Size", value |-> "bars"] >>

\* get_per_coverage_plot_functions()
get_per_coverage_plot_functions ==
    << "Histogram Total Visited Vertices",
       "Histogram Total Visited Edges",
       "Histogram Average Visited Vertices",
       "Histogram Average Visited Edges" >>

\* get_test_execution_plot_functions()
get_test_execution_plot_functions ==
    << "Average Test Execution Time",
       "Minimum Test Execution Time",
       "Maximum Test Execution Time" >>

Value(number) == [exc |-> NoException, value |-> number]

\* [1 for visits in mapping.values() if visits != 0].count(1)
count_nonzero(mapping) ==
    Cardinality({i \in DOMAIN mapping : mapping[i].value.num # 0})

\* [1 for visits in mapping.values()].count(1): every identifier counted.
count_all(mapping) == Cardinality(DOMAIN mapping)

\* count / BenchmarkPlotter.benchmark.report.model.<elements> * 100 with
\* every identifier counted.
percentage_of_all(mapping, attr, elements) ==
    IF attr = <<>> THEN [exc |-> "AttributeError", value |-> Integer(0)]
    ELSE LET quotient == truediv(Integer(count_all(mapping)),
                                 Integer(attr[1].report.model[elements]))
         IN  [exc |-> quotient.exc, value |-> mul(quotient.value, Integer(100))]

\* count / BenchmarkPlotter.benchmark.report.model.<elements> * 100: the
\* class attribute is read when the lambda runs.
percentage(mapping, attr, elements) ==
    IF attr = <<>> THEN [exc |-> "AttributeError", value |-> Integer(0)]
    ELSE LET quotient == truediv(Integer(count_nonzero(mapping)),
                                 Integer(attr[1].report.model[elements]))
         IN  [exc |-> quotient.exc, value |-> mul(quotient.value, Integer(100))]

\* The value_lambda each chart function hands to _plot_bars or _plot_lines,
\* applied to one generator group; attr is BenchmarkPlotter.benchmark.
value_lambda(chart, generator, attr) ==
    CASE chart = "Total Time" -> Value(generator.total_generation_time)
      [] chart = "Total Size" -> Value(generator.total_test_suite_size)
      [] chart = "Average Time" -> Value(generator.average_generation_time)
      [] chart = "Average Size" -> Value(generator.average_test_suite_size)
      [] chart = "Minimum Time" -> Value(generator.min_generation_time)
      [] chart = "Maximum Time" -> Value(generator.max_generation_time)
      [] chart = "Minimum Size" -> Value(generator.min_test_suite_size)
      [] chart = "Maximum Size" -> Value(generator.max_test_suite_size)
      [] chart = "Max-Min Size" ->
            Value(sub(generator.max_test_suite_size, generator.min_test_suite_size))
      [] chart = "Max-Min Time" ->
            Value(sub(generator.max_generation_time, generator.min_generation_time))
      [] chart = "Coverage vs Time" -> Value(generator.total_generation_time)
      [] chart = "Size over Time" ->
            truediv(generator.average_test_suite_size, generator.average_generation_time)
      [] chart = "Average Vertex Visits %" ->
            percentage(generator.average_vertex_visits_individual, attr, "vertices")
      [] chart = "Average Edge Visits %" ->
            percentage(generator.average_edge_visits_individual, attr, "edges")
      [] chart = "Average vs Minimum Time" ->
            Value(sub(generator.average_generation_time, generator.min_generation_time))
      [] chart = "Average vs Minimum Size" ->
            Value(sub(generator.average_test_suite_size, generator.min_test_suite_size))

\* The value_lambda of the test-execution chart functions, on a run group.
run_group_lambda(chart, run_group) ==
    CASE chart = "Average Test Execution Time" -> run_group.average_test_duration
      [] chart = "Minimum Test Execution Time" -> run_group.minimum_test_duration
      [] chart = "Maximum Test Execution Time" -> run_group.maximum_test_duration

\* The property_lambda of the histogram chart functions.
property_lambda(chart, generator) ==
    CASE chart = "Histogram Total Visited Vertices" ->
            generator.total_vertex_visits_individual
      [] chart = "Histogram Total Visited Edges" ->
            generator.total_edge_visits_individual
      [] chart = "Histogram Average Visited Vertices" ->
            generator.average_vertex_visits_individual
      [] chart = "Histogram Average Visited Edges" ->
            generator.average_edge_visits_individual

\* [value_lambda(generator) for generator in generators]: the first
\* exception ends the comprehension.
RECURSIVE property_values(_, _, _, _)
property_values(chart, attr, generators, values) ==
    IF generators = <<>> THEN [exc |-> NoException, value |-> values]
    ELSE LET v == value_lambda(chart, Head(generators), attr)
         IN  IF v.exc # NoException THEN [exc |-> v.exc, value |-> values]
             ELSE property_values(chart, attr, Tail(generators), Append(values, v.value))

\* The bar centres with the offset of the series left out.
bar_positions_stacked(groups, i, bar_width) ==
    [j \in DOMAIN groups |-> Integer(groups[j].stop_coverage)]

\* [group.stop_coverage + i * bar_width for group in groups]
bar_positions(groups, i, bar_width) ==
    [j \in DOMAIN groups |->
        add(Integer(groups[j].stop_coverage), mul(Integer(i), bar_width))]

\* ax.bar(coverage_values, property_values, label=..., width=bar_width,
\* align='center') followed by the trend line fitted to the same points.
Bars(label, coverage_values, values, bar_width) ==
    Series("bar", label, coverage_values, values, bar_width)

\* The loop of _plot_bars from the generator name at position i (1-based;
\* enumerate counts from 0) on.
RECURSIVE bar_series(_, _, _, _, _, _)
bar_series(chart, attr, grouped_generators, i, bar_width, series) ==
    IF i > Len(grouped_generators) THEN [exc |-> NoException, series |-> series]
    ELSE LET values == property_values(chart, attr, grouped_generators[i].value, <<>>)
         IN  IF values.exc # NoException THEN [exc |-> values.exc, series |-> series]
             ELSE bar_series(chart, attr, grouped_generators, i + 1, bar_width,
                      Append(series,
                             Bars(grouped_generators[i].name,
                                  bar_positions(grouped_generators[i].value, i - 1, bar_width),
                                  values.value, bar_width)))

\* What a drawing routine leaves: the series on the current figure and the
\* exception that ended it, if any.
Drawn(plt, drawing) == [exc |-> drawing.exc, plt |-> draw(plt, drawing.series)]

\* _plot_bars: bar_width = 6 / group_count divides by the number of
\* generator names.  The drawing calls and the trend-line fit are taken to
\* succeed on the non-empty series of a generator.
_plot_bars(plt, grouped_generators, chart, attr) ==
    IF truediv(Integer(6), Integer(Len(grouped_generators))).exc # NoException
    THEN [exc |-> "ZeroDivisionError", plt |-> plt]
    ELSE Drawn(plt, bar_series(chart, attr, grouped_generators, 1,
                               truediv(Integer(6), Integer(Len(grouped_generators))).value,
                               <<>>))

\* The loop of _plot_lines from the generator name at position i on.
RECURSIVE line_series(_, _, _, _, _)
line_series(chart, attr, grouped_generators, i, series) ==
    IF i > Len(grouped_generators) THEN [exc |-> NoException, series |-> series]
    ELSE LET values == property_values(chart, attr, grouped_generators[i].value, <<>>)
         IN  IF values.exc # NoException THEN [exc |-> values.exc, series |-> series]
             ELSE line_series(chart, attr, grouped_generators, i + 1,
                      Append(series,
                             Series("line", grouped_generators[i].name,
                                    [j \in DOMAIN grouped_generators[i].value |->
                                        Integer(grouped_generators[i].value[j].stop_coverage)],
                                    values.value, Integer(0))))

\* _plot_lines: the x ticks are taken from next(iter(grouped_generators)).
_plot_lines(plt, grouped_generators, chart, attr) ==
    IF Len(grouped_generators) = 0
    THEN [exc |-> "StopIteration", plt |-> plt]
    ELSE Drawn(plt, line_series(chart, attr, grouped_generators, 1, <<>>))

\* The loop of _plot_bars_tests that groups the sorted run groups by
\* algorithm, skipping the algorithms that are no key of grouped_generators.
RECURSIVE group_run_groups(_, _, _)
group_run_groups(run_groups, grouped_generators, grouped_run_groups) ==
    IF run_groups = <<>> THEN grouped_run_groups
    ELSE LET run_group == Head(run_groups)
         IN  IF ~HasKey(grouped_generators, run_group.algorithm)
             THEN group_run_groups(Tail(run_groups), grouped_generators, grouped_run_groups)
             ELSE LET sofar == IF HasKey(grouped_run_groups, run_group.algorithm)
                               THEN Lookup(grouped_run_groups, run_group.algorithm)
                               ELSE <<>>
                  IN  group_run_groups(Tail(run_groups), grouped_generators,
                          DictSet(grouped_run_groups, run_group.algorithm,
                                  Append(sofar, run_group)))

\* The bars of _plot_bars_tests: one series per algorithm of
\* grouped_run_groups, enumerated from 0.
test_series(chart, grouped_run_groups, bar_width) ==
    [i \in DOMAIN grouped_run_groups |->
        Bars(grouped_run_groups[i].name,
             bar_positions(grouped_run_groups[i].value, i - 1, bar_width),
             [j \in DOMAIN grouped_run_groups[i].value |->
                 run_group_lambda(chart, grouped_run_groups[i].value[j])],
             bar_width)]

\* _plot_bars_tests, lines 167-179: the bars, then the x ticks taken from
\* next(iter(grouped_run_groups)).
test_bars(plt, chart, grouped_run_groups, bar_width) ==
    [exc |-> IF Len(grouped_run_groups) = 0 THEN "StopIteration" ELSE NoException,
     plt |-> draw(plt, test_series(chart, grouped_run_groups, bar_width))]

\* _plot_bars_tests: the division by the number of generator names, the
\* grouping, the bars and the x ticks.
_plot_bars_tests(plt, b, grouped_generators, chart) ==
    IF truediv(Integer(6), Integer(Len(grouped_generators))).exc # NoException
    THEN [exc |-> "ZeroDivisionError", plt |-> plt]
    ELSE test_bars(plt, chart,
                   group_run_groups(run_groups_sorted(b), grouped_generators, <<>>),
                   truediv(Integer(6), Integer(Len(grouped_generators))).value)

\* sorted(items, key=lambda x: x[1], reverse=True): descending by value,
\* items of equal value in their original order.
RECURSIVE insert_descending(_, _)
insert_descending(item, sorted) ==
    IF sorted = <<>> THEN <<item>>
    ELSE IF less(Head(sorted).value, item.value) THEN <<item>> \o sorted
    ELSE <<Head(sorted)>> \o insert_descending(item, Tail(sorted))

RECURSIVE sorted_reverse(_, _)
sorted_reverse(items, sorted) ==
    IF items = <<>> THEN sorted
    ELSE sorted_reverse(Tail(items), insert_descending(Head(items), sorted))

\* The weights in the mapping's own order, the identifiers sorted.
histogram_of_unaligned(label, mapping) ==
    Series("hist", label,
           [k \in DOMAIN mapping |-> sorted_reverse(mapping, <<>>)[k].name],
           [k \in DOMAIN mapping |-> Integer(int(mapping[k].value))],
           Integer(0))

\* _plot_histogram, lines 408-412: the identifiers and the truncated visit
\* counts of one visit-count mapping, each taken from the sorted items.
histogram_of(label, mapping) ==
    Series("hist", label,
           [k \in DOMAIN mapping |-> sorted_reverse(mapping, <<>>)[k].name],
           [k \in DOMAIN mapping |-> Integer(int(sorted_reverse(mapping, <<>>)[k].value))],
           Integer(0))

\* _plot_histogram, the inner loop: the groups of one generator name from
\* the j-th on.
RECURSIVE histogram_group(_, _, _, _, _, _)
histogram_group(chart, label, generators, coverage_value, j, series) ==
    IF j > Len(generators) THEN series
    ELSE histogram_group(chart, label, generators, coverage_value, j + 1,
             IF generators[j].stop_coverage # coverage_value THEN series
             ELSE Append(series, histogram_of(label, property_lambda(chart, generators[j]))))

\* _plot_histogram, the outer loop: the generator names from the i-th on.
RECURSIVE histogram_series(_, _, _, _, _)
histogram_series(chart, grouped_generators, coverage_value, i, series) ==
    IF i > Len(grouped_generators) THEN series
    ELSE histogram_series(chart, grouped_generators, coverage_value, i + 1,
             histogram_group(chart, grouped_generators[i].name,
                             grouped_generators[i].value, coverage_value, 1, series))

\* _plot_histogram: one histogram series per generator group whose
\* stop_coverage is coverage_value, labelled with the generator name.  The
\* histogram call is taken to succeed on the non-empty mapping of a group.
_plot_histogram(plt, grouped_generators, chart, coverage_value) ==
    [exc |-> NoException,
     plt |-> draw(plt, histogram_series(chart, grouped_generators, coverage_value, 1, <<>>))]

\* A chart function of get_plot_functions(): a new figure, then the bars or
\* the lines.
plot_function(plt, f, attr, grouped_generators) ==
    IF f.value = "lines"
    THEN _plot_lines(subplots(plt, f.name, <<>>), grouped_generators, f.name, attr)
    ELSE _plot_bars(subplots(plt, f.name, <<>>), grouped_generators, f.name, attr)

\* A chart function of get_test_execution_plot_functions()
test_execution_plot_function(plt, chart, b, grouped_generators) ==
    _plot_bars_tests(subplots(plt, chart, <<>>), b, grouped_generators, chart)

\* A chart function of get_per_coverage_plot_functions()
per_coverage_plot_function(plt, chart, grouped_generators, coverage_value) ==
    _plot_histogram(subplots(plt, chart, <<coverage_value>>), grouped_generators,
                    chart, coverage_value)

\* The loops of create_plots carry the exception raised, if any, the chart
\* mapping so far and the state of pyplot.
Plots(exc, plots, plt) == [exc |-> exc, plots |-> plots, plt |-> plt]

\* plots[key] = BenchmarkPlotter.save_plot_bytesio()
saved(key, plots, save) == Plots(NoException, DictSet(plots, key, save.image), save.plt)

\* The end of a loop body: the chart function's exception leaves
\* create_plots, otherwise the current figure is saved under the key.
store(key, plots, drawn) ==
    IF drawn.exc # NoException THEN Plots(drawn.exc, plots, drawn.plt)
    ELSE saved(key, plots, save_plot_bytesio(drawn.plt))

\* create_plots, "General bar plots": the loop over get_plot_functions()
\* from its i-th entry on.
RECURSIVE general_plots(_, _, _, _)
general_plots(attr, grouped_generators, i, st) ==
    IF st.exc # NoException \/ i > Len(get_plot_functions) THEN st
    ELSE general_plots(attr, grouped_generators, i + 1,
             store(get_plot_functions[i].name, st.plots,
                   plot_function(close(st.plt), get_plot_functions[i], attr,
                                 grouped_generators)))

\* create_plots, "Test execution bar plots": the loop body, from the i-th
\* test-execution chart on.
RECURSIVE test_execution_plots(_, _, _, _)
test_execution_plots(b, grouped_generators, i, st) ==
    IF st.exc # NoException \/ i > Len(get_test_execution_plot_functions) THEN st
    ELSE test_execution_plots(b, grouped_generators, i + 1,
             store(get_test_execution_plot_functions[i], st.plots,
                   test_execution_plot_function(close(st.plt),
                                                get_test_execution_plot_functions[i],
                                                b, grouped_generators)))

\* The guard of the test-execution charts.
all_successful(b) ==
    all([i \in DOMAIN b.run_groups |-> b.run_groups[i].successful_runs])

\* create_plots, "Prepare coverage values": the stop-coverage values in
\* order of first appearance.
RECURSIVE collect_coverage_values(_, _)
collect_coverage_values(generators, coverage_values) ==
    IF generators = <<>> THEN coverage_values
    ELSE collect_coverage_values(Tail(generators),
             IF ~InList(Head(generators).stop_coverage, coverage_values)
             THEN Append(coverage_values, Head(generators).stop_coverage)
             ELSE coverage_values)

RECURSIVE prepare_coverage_values(_, _)
prepare_coverage_values(grouped_generators, coverage_values) ==
    IF grouped_generators = <<>> THEN coverage_values
    ELSE prepare_coverage_values(Tail(grouped_generators),
             collect_coverage_values(Head(grouped_generators).value, coverage_values))

\* The key of a per-coverage chart: f'{plot_function_name} - {coverage_value}%'
per_coverage_key(plot_function_name, coverage_value) ==
    plot_function_name \o " - " \o ToString(coverage_value) \o "%"

\* create_plots, "Per coverage plots": the inner loop over the coverage
\* values, from the j-th on, for one chart function.
RECURSIVE per_coverage_inner(_, _, _, _, _)
per_coverage_inner(grouped_generators, name, coverage_values, j, st) ==
    IF st.exc # NoException \/ j > Len(coverage_values) THEN st
    ELSE per_coverage_inner(grouped_generators, name, coverage_values, j + 1,
             store(per_coverage_key(name, coverage_values[j]), st.plots,
                   per_coverage_plot_function(close(st.plt), name, grouped_generators,
                                              coverage_values[j])))

\* create_plots, "Per coverage plots": the outer loop over the chart
\* functions, from the i-th on.
RECURSIVE per_coverage_plots(_, _, _, _)
per_coverage_plots(grouped_generators, coverage_values, i, st) ==
    IF st.exc # NoException \/ i > Len(get_per_coverage_plot_functions) THEN st
    ELSE per_coverage_plots(grouped_generators, coverage_values, i + 1,
             per_coverage_inner(grouped_generators, get_per_coverage_plot_functions[i],
                                coverage_values, 1, st))

\* The coverage values left in order of first appearance (the sort dropped).
sorted_coverage_values_unsorted(grouped_generators) ==
    prepare_coverage_values(grouped_generators, <<>>)

\* create_plots, lines 93-99: the coverage values, sorted ascending.
sorted_coverage_values(grouped_generators) ==
    Sort(prepare_coverage_values(grouped_generators, <<>>))

\* The test-execution charts drawn when every run group of a generator of
\* the mapping was successful.
test_execution_step_filtered(b, grouped_generators, general) ==
    IF general.exc # NoException THEN general
    ELSE IF all([i \in DOMAIN b.run_groups |->
                    HasKey(grouped_generators, b.run_groups[i].algorithm)
                        => b.run_groups[i].successful_runs])
    THEN test_execution_plots(b, grouped_generators, 1, general)
    ELSE general

\* create_plots, lines 83-90: the test-execution charts are drawn after the
\* general charts when every run group of the benchmark was successful.
test_execution_step(b, grouped_generators, general) ==
    IF general.exc # NoException THEN general
    ELSE IF all_successful(b)
    THEN test_execution_plots(b, grouped_generators, 1, general)
    ELSE general

\* create_plots, lines 92-110: the per-coverage charts and the return.
per_coverage_step(b, grouped_generators, drawn) ==
    IF drawn.exc # NoException THEN drawn
    ELSE per_coverage_plots(grouped_generators,
                            sorted_coverage_values(grouped_generators), 1, drawn)

\* What a call of create_plots leaves: the exception or the chart mapping,
\* the class attribute and the state of pyplot.
returned(b, st) ==
    [exc |-> st.exc,
     value |-> IF st.exc # NoException THEN <<>> ELSE st.plots,
     benchmark |-> <<b>>,
     plt |-> st.plt]

\* BenchmarkPlotter.create_plots(benchmark, grouped_generators), with pyplot
\* in state plt: line 71 sets the class attribute, line 72 closes the
\* current figure, then the three families of charts are drawn.
create_plots(plt, b, grouped_generators) ==
    returned(b,
        per_coverage_step(b, grouped_generators,
            test_execution_step(b, grouped_generators,
                general_plots(<<b>>, grouped_generators, 1,
                              Plots(NoException, <<>>, close(plt))))))

(***************************************************************************)
(* The world a call acts on: the output directory, the events so far and   *)
(* the plotter's class attribute.  Every step returns the world it leaves   *)
(* and the exception it raised, if any.                                    *)
(***************************************************************************)
Directory == [type |-> "dir", data |-> <<>>]
File(data) == [type |-> "file", data |-> data]

Exists(fs, path) == path \in DOMAIN fs

IsPrefix(prefix, path) ==
    Len(prefix) <= Len(path) /\ SubSeq(path, 1, Len(prefix)) = prefix

Put(fs, path, content) ==
    [p \in DOMAIN fs \cup {path} |-> IF p = path THEN content ELSE fs[p]]

Raise(w, exc) == [exc |-> exc, fs |-> w.fs, log |-> w.log, attr |-> w.attr, figs |-> w.figs]

\* The world after a call of create_plots: the class attribute, the open
\* figures and the pyplot calls are those the call left.
SetPlotter(w, plots) ==
    [exc |-> NoException, fs |-> w.fs, log |-> plots.plt.log,
     attr |-> plots.benchmark, figs |-> plots.plt.figs]

\* Path.mkdir(parents=True, exist_ok=...): FileExistsError when the path
\* exists, unless exist_ok is set and the path is a directory; missing
\* parents are created too.
mkdir(w, path, exist_ok) ==
    IF Exists(w.fs, path)
    THEN IF exist_ok /\ w.fs[path].type = "dir"
         THEN [exc |-> NoException, fs |-> w.fs, log |-> w.log, attr |-> w.attr, figs |-> w.figs]
         ELSE Raise(w, "FileExistsError")
    ELSE LET made == {SubSeq(path, 1, n) : n \in 1..Len(path)} \ DOMAIN w.fs
         IN  [exc |-> NoException,
              fs |-> [p \in DOMAIN w.fs \cup made |->
                         IF p \in made THEN Directory ELSE w.fs[p]],
              log |-> Append(w.log, [event |-> "mkdir", path |-> path]),
              attr |-> w.attr, figs |-> w.figs]

\* with open(path, 'w') as f: f.write(data)
write_file(w, path, data) ==
    [exc |-> NoException,
     fs |-> Put(w.fs, path, File(data)),
     log |-> Append(w.log, [event |-> "write", path |-> path]),
     attr |-> w.attr, figs |-> w.figs]

\* shutil.rmtree(path)
rmtree(w, path) ==
    [exc |-> NoException,
     fs |-> [p \in {q \in DOMAIN w.fs : ~IsPrefix(path, q)} |-> w.fs[p]],
     log |-> Append(w.log, [event |-> "rmtree", path |-> path]),
     attr |-> w.attr, figs |-> w.figs]

\* print(...) and input() on the controlling terminal
terminal(w, event) ==
    [exc |-> NoException, fs |-> w.fs,
     log |-> Append(w.log, [event |-> event, path |-> <<>>]), attr |-> w.attr, figs |-> w.figs]

(***************************************************************************)
(* ReportFactory                                                           *)
(***************************************************************************)
\* The parameters of create_plots(benchmark, grouped_generators, show=False)
create_plots_parameters == <<"benchmark", "grouped_generators", "show">>

\* BenchmarkPlotter.create_plots(*args), as a call site evaluates it: the
\* arguments are bound first, then the body runs.
call_create_plots(w, args) ==
    LET bind == BindArguments(create_plots_parameters, 1, args)
    IN  IF bind.exc # NoException
        THEN [exc |-> bind.exc, value |-> <<>>, benchmark |-> w.attr,
              plt |-> [figs |-> w.figs, log |-> w.log]]
        ELSE create_plots([figs |-> w.figs, log |-> w.log], args[1], args[2])

\* for name, bytesIO in plots.items(): write images_dir / f'{name}.png',
\* from the i-th chart on.
RECURSIVE write_images(_, _, _, _)
write_images(w, images_dir, plots, i) ==
    IF i > Len(plots) THEN w
    ELSE write_images(
             write_file(w, Append(images_dir, plots[i].name \o ".png"), <<plots[i].value>>),
             images_dir, plots, i + 1)

\* create_raw_report, lines 55-57: the image files, unless the creation of
\* the images directory raised.
raw_report_images(w, out, plots) ==
    IF w.exc # NoException THEN w
    ELSE write_images(w, Append(out, "images"), plots.value, 1)

\* create_raw_report, lines 47-57: the writes, given the chart mapping the
\* call of create_plots produced.
raw_report_write(w, b, out, statistics, plots) ==
    IF plots.exc # NoException THEN Raise(SetPlotter(w, plots), plots.exc)
    ELSE raw_report_images(
             mkdir(write_file(write_file(SetPlotter(w, plots),
                                         Append(out, "benchmarks.json"), <<b.report>>),
                              Append(out, "statistics.json"), statistics),
                   Append(out, "images"), TRUE),
             out, plots)

\* create_raw_report, lines 44-45: the statistics and the charts of the
\* filtered generators.
raw_report_compute(w, b, out, grouped_generators) ==
    raw_report_write(w, b, out, create_statistics(grouped_generators),
                     call_create_plots(w, <<grouped_generators>>))

\* ReportFactory.create_raw_report, writing below the directory `out`.
create_raw_report(w, b, out, whitelist, blacklist) ==
    raw_report_compute(w, b, out,
        filter_grouped_generators(b.report.generators_grouped, whitelist, blacklist))

\* The document create_html_report writes: the heading with the benchmark
\* name, the statistics table (header row only) and one <img> tag per chart.
html_document(b, names) ==
    << [tag |-> "title", text |-> "GraphWalker Benchmark Report"],
       [tag |-> "h1", text |-> b.name],
       [tag |-> "h2", text |-> "Statistics"],
       [tag |-> "table", text |-> "Statistic,Value"],
       [tag |-> "h2", text |-> "Plots"] >>
    \o [i \in DOMAIN names |->
            [tag |-> "img", src |-> <<"images", names[i] \o ".png">>, alt |-> names[i]]]

\* create_html_report, lines 71-95: the image files and index.html, unless
\* the creation of the images directory raised.
html_report_files(w, b, out, plots) ==
    IF w.exc # NoException THEN w
    ELSE write_file(write_images(w, Append(out, "images"), plots.value, 1),
                    Append(out, "index.html"),
                    html_document(b, Keys(plots.value)))

\* create_html_report, lines 68-95: the writes, given the chart mapping the
\* call of create_plots produced.
html_report_write(w, b, out, plots) ==
    IF plots.exc # NoException THEN Raise(SetPlotter(w, plots), plots.exc)
    ELSE html_report_files(
             mkdir(SetPlotter(w, plots), Append(out, "images"), TRUE),
             b, out, plots)

\* ReportFactory.create_html_report, writing below the directory `out`.  The
\* statistics of line 66 are computed after the charts and written nowhere.
create_html_report(w, b, out, whitelist, blacklist) ==
    html_report_write(w, b, out,
        call_create_plots(w,
            <<filter_grouped_generators(b.report.generators_grouped, whitelist, blacklist)>>))

\* page.goto(file://<temp>/index.html); page.pdf(path=output / 'report.pdf'):
\* the headless browser captures the document as a PDF file.
page_pdf(w, html_file, pdf_file) ==
    [exc |-> NoException,
     fs |-> Put(w.fs, pdf_file, File(w.fs[html_file].data)),
     log |-> Append(w.log, [event |-> "pdf", path |-> pdf_file]),
     attr |-> w.attr, figs |-> w.figs]

\* create_pdf_report, lines 123-126: the temp directory is deleted when the
\* answer, lower-cased, is 'y'.
delete_prompt(w, temp_dir, answer) ==
    IF lower(answer) = <<"y">> THEN rmtree(w, temp_dir) ELSE terminal(w, "print")

\* create_pdf_report, lines 117-122: the messages, the listing, the prompt
\* and the read of the answer.
announce(w) ==
    terminal(terminal(terminal(terminal(terminal(w, "print"), "print"), "seedir"),
                      "prompt"), "input")

\* create_pdf_report, lines 107-126: the capture of report.pdf and the
\* prompt, unless create_html_report raised.
pdf_report_capture(w, out, answer) ==
    IF w.exc # NoException THEN w
    ELSE delete_prompt(
             announce(page_pdf(w, Append(out, "temp") \o <<"index.html">>,
                               Append(out, "report.pdf"))),
             Append(out, "temp"), answer)

\* create_pdf_report, lines 105-126: the HTML report written into the temp
\* directory and what follows, unless the creation of the directory raised.
pdf_report_html(w, b, out, whitelist, blacklist, answer) ==
    IF w.exc # NoException THEN w
    ELSE pdf_report_capture(
             create_html_report(w, b, Append(out, "temp"), whitelist, blacklist),
             out, answer)

\* create_pdf_report with the temp directory made with exist_ok=True.
create_pdf_report_exist_ok(w, b, out, whitelist, blacklist, answer) ==
    pdf_report_html(mkdir(w, Append(out, "temp"), TRUE),
                    b, out, whitelist, blacklist, answer)

\* ReportFactory.create_pdf_report; `answer` is the line input() reads.
create_pdf_report(w, b, out, whitelist, blacklist, answer) ==
    pdf_report_html(mkdir(w, Append(out, "temp"), FALSE),
                    b, out, whitelist, blacklist, answer)

\* create_report with an unknown report type treated as 'html'.
create_report_fallback(report_type, w, b, out, whitelist, blacklist, answer) ==
    IF lower(report_type) = <<"p", "d", "f">>
    THEN create_pdf_report(w, b, out, whitelist, blacklist, answer)
    ELSE IF lower(report_type) = <<"r", "a", "w", "_", "d", "a", "t", "a">>
    THEN create_raw_report(w, b, out, whitelist, blacklist)
    ELSE create_html_report(w, b, out, whitelist, blacklist)

\* ReportFactory.create_report: the dispatch on self.report_type.lower()
create_report(report_type, w, b, out, whitelist, blacklist, answer) ==
    IF lower(report_type) = <<"h", "t", "m", "l">>
    THEN create_html_report(w, b, out, whitelist, blacklist)
    ELSE IF lower(report_type) = <<"p", "d", "f">>
    THEN create_pdf_report(w, b, out, whitelist, blacklist, answer)
    ELSE IF lower(report_type) = <<"r", "a", "w", "_", "d", "a", "t", "a">>
    THEN create_raw_report(w, b, out, whitelist, blacklist)
    ELSE Raise(w, "ValueError")

(***************************************************************************)
(* BenchmarkRun.from_files.  A file's text is a sequence of JSON tokens:   *)
(* "{" "}" ":" "," , "s" (a string literal) and "1" (a number).            *)
(***************************************************************************)
Absent == [exists |-> FALSE, text |-> <<>>]
TextFile(text) == [exists |-> TRUE, text |-> text]

JsonValue(kind, items) == [json |-> kind, items |-> items]

\* The dict literal {}
EmptyDict == JsonValue("object", <<>>)

ParseError == [ok |-> FALSE, value |-> JsonValue("error", <<>>), next |-> 0]

\* json.loads on a token sequence: a value is a number, a string or an
\* object whose members are string : value pairs separated by commas.
RECURSIVE parse_value(_, _)
RECURSIVE parse_members(_, _, _)
parse_value(text, i) ==
    IF i > Len(text) THEN ParseError
    ELSE IF text[i] = "1" THEN [ok |-> TRUE, value |-> JsonValue("number", <<>>), next |-> i + 1]
    ELSE IF text[i] = "s" THEN [ok |-> TRUE, value |-> JsonValue("string", <<>>), next |-> i + 1]
    ELSE IF text[i] = "{"
    THEN IF i + 1 <= Len(text) /\ text[i + 1] = "}"
         THEN [ok |-> TRUE, value |-> EmptyDict, next |-> i + 2]
         ELSE parse_members(text, i + 1, <<>>)
    ELSE ParseError

parse_members(text, i, items) ==
    IF i + 1 > Len(text) \/ text[i] # "s" \/ text[i + 1] # ":" THEN ParseError
    ELSE LET member == parse_value(text, i + 2)
             sofar == Append(items, [name |-> "s", value |-> member.value])
         IN  IF ~member.ok \/ member.next > Len(text) THEN ParseError
             ELSE IF text[member.next] = "}"
             THEN [ok |-> TRUE, value |-> JsonValue("object", sofar), next |-> member.next + 1]
             ELSE IF text[member.next] = ","
             THEN parse_members(text, member.next + 1, sofar)
             ELSE ParseError

json_loads(text) ==
    LET parsed == parse_value(text, 1)
    IN  IF parsed.ok /\ parsed.next = Len(text) + 1
        THEN [exc |-> NoException, value |-> parsed.value]
        ELSE [exc |-> "JSONDecodeError", value |-> JsonValue("error", <<>>)]

\* json.loads(file.read_text())
load_json(file) ==
    IF ~file.exists
    THEN [exc |-> "FileNotFoundError", value |-> JsonValue("error", <<>>)]
    ELSE json_loads(file.text)

NoRun == <<>>

\* from_files with the test-results file read like the two required files.
from_files_required(path_file, report_file, test_results_file) ==
    LET path == load_json(path_file)
        report == load_json(report_file)
        test_results == load_json(test_results_file)
    IN  IF path.exc # NoException THEN [exc |-> path.exc, value |-> NoRun]
        ELSE IF report.exc # NoException THEN [exc |-> report.exc, value |-> NoRun]
        ELSE IF test_results.exc # NoException THEN [exc |-> test_results.exc, value |-> NoRun]
        ELSE [exc |-> NoException,
              value |-> <<[path |-> path.value, report |-> report.value,
                           test_results |-> test_results.value]>>]

\* from_files with the report file read like the test-results file: an
\* absent report file resolves to the empty mapping.
from_files_default(path_file, report_file, test_results_file) ==
    LET path == load_json(path_file)
        report == IF report_file.exists
                  THEN json_loads(report_file.text)
                  ELSE [exc |-> NoException, value |-> EmptyDict]
        test_results == IF test_results_file.exists
                        THEN json_loads(test_results_file.text)
                        ELSE [exc |-> NoException, value |-> EmptyDict]
    IN  IF path.exc # NoException THEN [exc |-> path.exc, value |-> NoRun]
        ELSE IF report.exc # NoException THEN [exc |-> report.exc, value |-> NoRun]
        ELSE IF test_results.exc # NoException THEN [exc |-> test_results.exc, value |-> NoRun]
        ELSE [exc |-> NoException,
              value |-> <<[path |-> path.value, report |-> report.value,
                           test_results |-> test_results.value]>>]

\* BenchmarkRun.from_files(path_file, report_file, test_results_file)
from_files(path_file, report_file, test_results_file) ==
    LET path == load_json(path_file)
        report == load_json(report_file)
        test_results == IF test_results_file.exists
                        THEN json_loads(test_results_file.text)
                        ELSE [exc |-> NoException, value |-> EmptyDict]
    IN  IF path.exc # NoException THEN [exc |-> path.exc, value |-> NoRun]
        ELSE IF report.exc # NoException THEN [exc |-> report.exc, value |-> NoRun]
        ELSE IF test_results.exc # NoException THEN [exc |-> test_results.exc, value |-> NoRun]
        ELSE [exc |-> NoException,
              value |-> <<[path |-> path.value, report |-> report.value,
                           test_results |-> test_results.value]>>]

(***************************************************************************)
(* Inputs                                                                  *)
(***************************************************************************)
ReportTypes ==
    { <<"h", "t", "m", "l">>, <<"H", "T", "M", "L">>,
      <<"p", "d", "f">>, <<"P", "d", "f">>,
      <<"r", "a", "w", "_", "d", "a", "t", "a">>, <<"R", "A", "W", "_", "D", "A", "T", "A">>,
      <<"x", "m", "l">>, <<>> }

Whitelists == { <<>>, <<"Random">>, <<"Unknown">> }
Blacklists == { <<>>, <<"Random", "Unknown">> }

\* What the operator types at the prompt.
Answers == { <<"y">>, <<"Y">>, <<"n">>, <<>> }

IsPdf(report_type) == lower(report_type) = <<"p", "d", "f">>

\* The output directory before the first call: empty, holding the temp
\* directory an earlier pdf run left behind, or holding all of an earlier
\* pdf run's files.
EmptyOutput == [p \in {} |-> Directory]
LeftTemp == Put(EmptyOutput, <<"temp">>, Directory)
StaleRun ==
    Put(Put(Put(LeftTemp, <<"temp", "images">>, Directory),
            <<"temp", "index.html">>, File(<<>>)),
        <<"report.pdf">>, File(<<>>))
InitialOutputs == {EmptyOutput, LeftTemp, StaleRun}

\* The benchmarks of the report runs: every generator ran at every coverage
\* value, and at most one run group was executed, for the first generator.
ReportBenchmarks ==
    {b \in Benchmarks :
        /\ Len(b.run_groups) <= 1
        /\ \A i \in DOMAIN b.run_groups :
              /\ b.run_groups[i].algorithm = GeneratorNames[1]
              /\ b.run_groups[i].stop_coverage = 50
        /\ \A i \in DOMAIN b.report.generators_grouped :
              LET groups == b.report.generators_grouped[i].value
              IN  /\ Len(groups) = NumCoverages
                  /\ \A j \in 1..(Len(groups) - 1) :
                        groups[j].stop_coverage < groups[j + 1].stop_coverage}

\* The groups at the first stop-coverage with their metrics varied: the
\* generation took no measurable time or some, and the visits differ.
ChartGenerators ==
    {BenchmarkGenerator(50, times, <<4, 6>>, visits.vertex, visits.edge) :
        times \in {<<0, 0>>, <<10, 20>>}, visits \in Visits}

\* The models: with vertices and edges, twice as large, without vertices,
\* without edges.
Models ==
    {DefaultModel, [vertices |-> 6, edges |-> 4],
     [vertices |-> 0, edges |-> 2], [vertices |-> 3, edges |-> 0]}

\* The benchmarks of the chart runs: two generators, the first at two
\* stop-coverages, and one successful run group for each generator.
ChartBenchmarks ==
    {[name |-> "benchmark",
      report |-> [generators_grouped |->
                      << [name |-> GeneratorNames[1],
                          value |-> <<first, DefaultGenerator(100)>>],
                         [name |-> GeneratorNames[2], value |-> <<second>>] >>,
                  model |-> model],
      run_groups |-> << TestRuns(GeneratorNames[1], 50, TRUE),
                        TestRuns(GeneratorNames[2], 50, TRUE) >>] :
        first \in ChartGenerators, second \in ChartGenerators, model \in Models}

JsonTexts ==
    { <<"{", "}">>, <<"{", "s", ":", "1", "}">>, <<"{", "s", ":", "1", ",", "}">>,
      <<"{">>, <<>> }
InputFiles == {Absent} \cup {TextFile(t) : t \in JsonTexts}
FileNames == {"path_file", "report_file", "test_results_file"}

NoCall == [op |-> "none"]
NoResult == [exc |-> NoException, value |-> <<>>]

(***************************************************************************)
(* The state machine                                                       *)
(***************************************************************************)
Init ==
    /\ benchmark \in ReportBenchmarks
    /\ output \in InitialOutputs
    /\ plotter_benchmark = <<>>
    /\ call = NoCall
    /\ result = NoResult
    /\ log = <<>>
    /\ files = [f \in FileNames |-> TextFile(<<"{", "}">>)]
    /\ figures = <<>>

\* The state a call of the report factory leaves.
ReportDone(c, w) ==
    /\ call' = c
    /\ result' = [exc |-> w.exc, value |-> <<>>]
    /\ output' = w.fs
    /\ log' = w.log
    /\ plotter_benchmark' = w.attr
    /\ figures' = w.figs
    /\ UNCHANGED <<benchmark, files>>

\* ReportFactory(report_type).create_report(benchmark, output, whitelist, blacklist)
CreateReport ==
    \E report_type \in ReportTypes, whitelist \in Whitelists, blacklist \in Blacklists :
      \E answer \in IF IsPdf(report_type) THEN Answers ELSE {<<>>} :
        ReportDone([op |-> "create_report", report_type |-> report_type,
                    whitelist |-> whitelist, blacklist |-> blacklist, answer |-> answer],
                   create_report(report_type,
                                 [exc |-> NoException, fs |-> output, log |-> <<>>,
                                  attr |-> plotter_benchmark, figs |-> figures],
                                 benchmark, <<>>, whitelist, blacklist, answer))

\* The state a call of create_plots leaves.
PlotsDone(grouped_generators, r) ==
    /\ call' = [op |-> "create_plots", grouped_generators |-> grouped_generators]
    /\ result' = [exc |-> r.exc, value |-> r.value]
    /\ plotter_benchmark' = r.benchmark
    /\ log' = r.plt.log
    /\ figures' = r.plt.figs
    /\ UNCHANGED <<benchmark, output, files>>

\* The call of create_plots on one filtered mapping.
PlotFiltered(grouped_generators) ==
    PlotsDone(grouped_generators,
              create_plots([figs |-> figures, log |-> <<>>], benchmark, grouped_generators))

\* BenchmarkPlotter.create_plots(benchmark, grouped_generators) on the
\* benchmark's filtered generators.
CreatePlots ==
    \E whitelist \in Whitelists, blacklist \in Blacklists :
        PlotFiltered(filter_grouped_generators(benchmark.report.generators_grouped,
                                               whitelist, blacklist))

\* The state a call of from_files leaves.
LoadDone(r) ==
    /\ call' = [op |-> "from_files"]
    /\ result' = r
    /\ log' = <<>>
    /\ UNCHANGED <<benchmark, output, plotter_benchmark, files, figures>>

\* BenchmarkRun.from_files on the three input files
FromFiles ==
    LoadDone(from_files(files["path_file"], files["report_file"],
                        files["test_results_file"]))

\* One chart rendered outside create_plots the way its loop body renders
\* it (lines 77-81): the chart function's exception, or the image saved
\* from the current figure.
rendered(drawn) ==
    IF drawn.exc # NoException
    THEN [exc |-> drawn.exc, value |-> <<>>, plt |-> drawn.plt]
    ELSE [exc |-> NoException, value |-> <<save_plot_bytesio(drawn.plt).image>>,
          plt |-> save_plot_bytesio(drawn.plt).plt]

\* The state a chart rendered on its own leaves.
ChartDone(name, arg, grouped_generators, r) ==
    /\ call' = [op |-> "plot_function", name |-> name, arg |-> arg,
                grouped_generators |-> grouped_generators]
    /\ result' = [exc |-> r.exc, value |-> r.value]
    /\ log' = r.plt.log
    /\ figures' = r.plt.figs
    /\ UNCHANGED <<benchmark, output, plotter_benchmark, files>>

\* plt.close(); BenchmarkPlotter.plot_...(grouped_generators);
\* BenchmarkPlotter.save_plot_bytesio() for a chart function of
\* get_plot_functions(), on the benchmark's generators.
PlotGeneral ==
    \E i \in DOMAIN get_plot_functions :
        ChartDone(get_plot_functions[i].name, <<>>, benchmark.report.generators_grouped,
                  rendered(plot_function(close([figs |-> figures, log |-> <<>>]),
                                         get_plot_functions[i], plotter_benchmark,
                                         benchmark.report.generators_grouped)))

\* The same for a chart function of get_test_execution_plot_functions().
PlotTestExecution ==
    \E i \in DOMAIN get_test_execution_plot_functions :
        ChartDone(get_test_execution_plot_functions[i], <<>>,
                  benchmark.report.generators_grouped,
                  rendered(test_execution_plot_function(
                               close([figs |-> figures, log |-> <<>>]),
                               get_test_execution_plot_functions[i], benchmark,
                               benchmark.report.generators_grouped)))

\* The same for a chart function of get_per_coverage_plot_functions() and a
\* coverage value.
PlotPerCoverage ==
    \E i \in DOMAIN get_per_coverage_plot_functions, coverage_value \in Coverages :
        ChartDone(get_per_coverage_plot_functions[i], <<coverage_value>>,
                  benchmark.report.generators_grouped,
                  rendered(per_coverage_plot_function(
                               close([figs |-> figures, log |-> <<>>]),
                               get_per_coverage_plot_functions[i],
                               benchmark.report.generators_grouped, coverage_value)))

PlotChart == PlotGeneral \/ PlotTestExecution \/ PlotPerCoverage

Next == CreateReport \/ CreatePlots \/ FromFiles

Spec == Init /\ [][Next]_vars

\* The chart renderer alone, on every benchmark of the bounds.
InitPlots ==
    /\ benchmark \in Benchmarks
    /\ output = EmptyOutput
    /\ plotter_benchmark = <<>>
    /\ call = NoCall
    /\ result = NoResult
    /\ log = <<>>
    /\ files = [f \in FileNames |-> TextFile(<<"{", "}">>)]
    /\ figures = <<>>

SpecPlots == InitPlots /\ [][CreatePlots]_vars

\* The chart functions on benchmarks whose groups differ in their metrics:
\* create_plots and single charts.
InitCharts ==
    /\ benchmark \in ChartBenchmarks
    /\ output = EmptyOutput
    /\ plotter_benchmark = <<>>
    /\ call = NoCall
    /\ result = NoResult
    /\ log = <<>>
    /\ files = [f \in FileNames |-> TextFile(<<"{", "}">>)]
    /\ figures = <<>>

NextCharts == CreatePlots \/ PlotChart

SpecCharts == InitCharts /\ [][NextCharts]_vars

\* The run loader alone, on every combination of input files.
InitLoader ==
    /\ benchmark \in {b \in ReportBenchmarks : b.run_groups = <<>>
                                                /\ Len(b.report.generators_grouped) = 1}
    /\ output = EmptyOutput
    /\ plotter_benchmark = <<>>
    /\ call = NoCall
    /\ result = NoResult
    /\ log = <<>>
    /\ files \in [FileNames -> InputFiles]
    /\ figures = <<>>

SpecLoader == InitLoader /\ [][FromFiles]_vars

(***************************************************************************)
(* Properties                                                              *)
(***************************************************************************)
Html == <<"h", "t", "m", "l">>
Pdf == <<"p", "d", "f">>
RawData == <<"r", "a", "w", "_", "d", "a", "t", "a">>
KnownReportTypes == {Html, Pdf, RawData}

TempDir == <<"temp">>
ReportPdf == <<"report.pdf">>

\* The charts the chart renderer returns for a benchmark under a filter.
Charts(b, whitelist, blacklist) ==
    create_plots(NoPlots, b, filter_grouped_generators(b.report.generators_grouped,
                                              whitelist, blacklist))

\* The chart renderer returns a chart mapping for the benchmark.
ValidBenchmark(b, whitelist, blacklist) ==
    Charts(b, whitelist, blacklist).exc = NoException

ImagePath(name) == <<"images", name \o ".png">>

Before(events, first, second) ==
    \E i, j \in DOMAIN events : i < j /\ events[i] = first /\ events[j] = second

\* C1: a create_report call whose report type, lower-cased, is none of
\* 'html', 'pdf', 'raw_data' raises ValueError, leaves the output directory
\* as it was and performs no file-system or terminal event.
C1_UnknownTypeFailsFast ==
    [][(call'.op = "create_report" /\ lower(call'.report_type) \notin KnownReportTypes)
         => (result'.exc = "ValueError" /\ output' = output /\ log' = <<>>)]_vars

C1_Witness ==
    /\ call.op = "create_report"
    /\ call.report_type = <<"x", "m", "l">>
    /\ result.exc = "ValueError"
    /\ output = StaleRun

\* C2: a raw_data report of a benchmark the chart renderer can draw
\* completes and leaves benchmarks.json, statistics.json and one
\* images/<chart-name>.png per chart of the renderer.
C2_RawReportWritesArtifacts ==
    (/\ call.op = "create_report"
     /\ lower(call.report_type) = RawData
     /\ ValidBenchmark(benchmark, call.whitelist, call.blacklist))
    => /\ result.exc = NoException
       /\ <<"benchmarks.json">> \in DOMAIN output
       /\ <<"statistics.json">> \in DOMAIN output
       /\ LET charts == Charts(benchmark, call.whitelist, call.blacklist).value
          IN  \A i \in DOMAIN charts : ImagePath(charts[i].name) \in DOMAIN output

\* C3: an html report of a benchmark the chart renderer can draw completes
\* and leaves index.html and the images directory; every chart has its
\* image file and exactly one <img> tag referencing it, and every <img>
\* tag references a file that was written.
C3_HtmlReportEmbedsCharts ==
    (/\ call.op = "create_report"
     /\ lower(call.report_type) = Html
     /\ ValidBenchmark(benchmark, call.whitelist, call.blacklist))
    => /\ result.exc = NoException
       /\ <<"index.html">> \in DOMAIN output
       /\ <<"images">> \in DOMAIN output
       /\ LET charts == Charts(benchmark, call.whitelist, call.blacklist).value
              document == output[<<"index.html">>].data
              tags == {i \in DOMAIN document : document[i].tag = "img"}
          IN  /\ \A i \in DOMAIN charts :
                    /\ ImagePath(charts[i].name) \in DOMAIN output
                    /\ Cardinality({t \in tags :
                           document[t].src = ImagePath(charts[i].name)}) = 1
              /\ \A t \in tags :
                    \E i \in DOMAIN charts : document[t].src = ImagePath(charts[i].name)

\* C4: a pdf report started without a temp directory creates temp, writes
\* the HTML report into it, captures report.pdf and prompts, in that order;
\* temp is gone afterwards exactly when the answer lower-cases to 'y', it is
\* never removed before report.pdf is captured, and report.pdf remains.
C4_PdfStepsInOrder ==
    [][(/\ call'.op = "create_report"
        /\ IsPdf(call'.report_type)
        /\ TempDir \notin DOMAIN output
        /\ ValidBenchmark(benchmark, call'.whitelist, call'.blacklist))
       => /\ result'.exc = NoException
          /\ Before(log', [event |-> "mkdir", path |-> TempDir],
                          [event |-> "write", path |-> <<"temp", "index.html">>])
          /\ Before(log', [event |-> "write", path |-> <<"temp", "index.html">>],
                          [event |-> "pdf", path |-> ReportPdf])
          /\ Before(log', [event |-> "pdf", path |-> ReportPdf],
                          [event |-> "prompt", path |-> <<>>])
          /\ (TempDir \notin DOMAIN output') <=> (lower(call'.answer) = <<"y">>)
          /\ \A i \in DOMAIN log' :
                log'[i].event = "rmtree"
                    => \E j \in 1..(i - 1) : log'[j] = [event |-> "pdf", path |-> ReportPdf]
          /\ ReportPdf \in DOMAIN output']_vars

\* C5: a pdf report requested while <output>/temp exists raises
\* FileExistsError at the creation of the directory, performs no write and
\* leaves the output directory, report.pdf included, as it was.
C5_ExistingTempFails ==
    [][(/\ call'.op = "create_report"
        /\ IsPdf(call'.report_type)
        /\ TempDir \in DOMAIN output)
       => (result'.exc = "FileExistsError" /\ output' = output /\ log' = <<>>)]_vars

C5_Witness ==
    /\ call.op = "create_report"
    /\ call.report_type = <<"P", "d", "f">>
    /\ result.exc = "FileExistsError"
    /\ output = LeftTemp

TestExecutionCharts ==
    {"Average Test Execution Time", "Minimum Test Execution Time",
     "Maximum Test Execution Time"}

\* C6: create_plots on a non-empty mapping returns a chart mapping that
\* holds all three test-execution charts when every run group of the
\* benchmark was successful (also when there is no run group, or none for
\* the generators of the mapping), and none of them otherwise.
C6_TestExecutionChartsGuard ==
    (call.op = "create_plots" /\ Len(call.grouped_generators) > 0)
    => /\ result.exc = NoException
       /\ IF \A i \in DOMAIN benchmark.run_groups : benchmark.run_groups[i].successful_runs
          THEN \A name \in TestExecutionCharts : HasKey(result.value, name)
          ELSE \A name \in TestExecutionCharts : ~HasKey(result.value, name)

CoverageSet(grouped_generators) ==
    UNION {{grouped_generators[i].value[j].stop_coverage :
               j \in DOMAIN grouped_generators[i].value} :
           i \in DOMAIN grouped_generators}

RECURSIVE Ascending(_)
Ascending(S) ==
    IF S = {} THEN <<>>
    ELSE LET least == CHOOSE x \in S : \A y \in S : x <= y
         IN  <<least>> \o Ascending(S \ {least})

\* C7: the chart mapping create_plots returns holds, for each of the four
\* histogram chart functions, exactly one chart per distinct stop-coverage
\* value of the grouped generators, in ascending order of coverage, each
\* keyed '<chart name> - <coverage>%' and drawn for that coverage value.
C7_OneHistogramPerCoverage ==
    (call.op = "create_plots" /\ result.exc = NoException)
    => \A h \in {get_per_coverage_plot_functions[k] :
                    k \in DOMAIN get_per_coverage_plot_functions} :
          LET drawn == SelectSeq(result.value, LAMBDA e : e.value.chart = h)
              expected == Ascending(CoverageSet(call.grouped_generators))
          IN  /\ Len(drawn) = Len(expected)
              /\ \A k \in DOMAIN drawn :
                    /\ drawn[k].name = h \o " - " \o ToString(expected[k]) \o "%"
                    /\ drawn[k].value.arg = <<expected[k]>>

\* Two generators share a coverage value, and the values first appear in
\* descending order.
C7_Witness ==
    /\ call.op = "create_plots"
    /\ result.exc = NoException
    /\ Len(call.grouped_generators) = 2
    /\ Len(call.grouped_generators[1].value) + Len(call.grouped_generators[2].value)
          > Cardinality(CoverageSet(call.grouped_generators))
    /\ call.grouped_generators[1].value[1].stop_coverage
          > call.grouped_generators[2].value[1].stop_coverage

\* C8: a raw_data or html report of a benchmark the chart renderer can draw
\* completes with the images directory holding exactly the charts the
\* renderer yields for the filtered mapping, value for value, so the two
\* modes agree chart for chart; the raw_data statistics are those of the
\* same filtered mapping.
C8_RawAndHtmlSameCharts ==
    (/\ call.op = "create_report"
     /\ lower(call.report_type) \in {RawData, Html}
     /\ ValidBenchmark(benchmark, call.whitelist, call.blacklist))
    => /\ result.exc = NoException
       /\ LET charts == Charts(benchmark, call.whitelist, call.blacklist).value
          IN  /\ \A i \in DOMAIN charts :
                    /\ ImagePath(charts[i].name) \in DOMAIN output
                    /\ output[ImagePath(charts[i].name)].data = <<charts[i].value>>
              /\ \A p \in DOMAIN output :
                    (Len(p) = 2 /\ p[1] = "images")
                        => \E i \in DOMAIN charts : p = ImagePath(charts[i].name)
       /\ lower(call.report_type) = RawData
             => output[<<"statistics.json">>].data =
                    create_statistics(filter_grouped_generators(
                        benchmark.report.generators_grouped, call.whitelist, call.blacklist))

\* C9: on a benchmark the chart renderer can draw, a raw_data or html report
\* succeeds whatever an earlier run left in the output directory, and
\* repeating a successful one leaves the directory as it was; a pdf report
\* fails only when <output>/temp existed before it.
C9_RerunIdempotent ==
    [][(/\ call'.op = "create_report"
        /\ ValidBenchmark(benchmark, call'.whitelist, call'.blacklist))
       => /\ lower(call'.report_type) \in {RawData, Html}
                => /\ result'.exc = NoException
                   /\ (call' = call /\ result.exc = NoException) => output' = output
          /\ (IsPdf(call'.report_type) /\ result'.exc # NoException)
                => TempDir \in DOMAIN output]_vars

\* C10: from_files on a parseable path file and a parseable report file
\* returns, without raising, a run whose test_results is the empty mapping
\* when the test-results file is absent, and the parsed content of that
\* file when it exists and parses.
C10_OptionalTestResults ==
    (/\ call.op = "from_files"
     /\ load_json(files["path_file"]).exc = NoException
     /\ load_json(files["report_file"]).exc = NoException)
    => /\ ~files["test_results_file"].exists
            => /\ result.exc = NoException
               /\ Len(result.value) = 1
               /\ result.value[1].test_results = JsonValue("object", <<>>)
       /\ (/\ files["test_results_file"].exists
           /\ json_loads(files["test_results_file"].text).exc = NoException)
            => /\ result.exc = NoException
               /\ Len(result.value) = 1
               /\ result.value[1].test_results =
                      json_loads(files["test_results_file"].text).value

C10_Witness ==
    /\ call.op = "from_files"
    /\ ~files["test_results_file"].exists
    /\ files["path_file"] = TextFile(<<"{", "s", ":", "1", "}">>)
    /\ files["report_file"] = TextFile(<<"{", "}">>)
    /\ result.exc = NoException
    /\ Len(result.value) = 1

\* C11: from_files raises the read or parse error of the path file, or
\* else of the report file, whenever one of the two is absent or does not
\* parse, whatever the test-results file holds, and constructs no run.
C11_RequiredFilesFail ==
    (/\ call.op = "from_files"
     /\ \/ load_json(files["path_file"]).exc # NoException
        \/ load_json(files["report_file"]).exc # NoException)
    => /\ result.exc \in {"FileNotFoundError", "JSONDecodeError"}
       /\ result.exc = IF load_json(files["path_file"]).exc # NoException
                       THEN load_json(files["path_file"]).exc
                       ELSE load_json(files["report_file"]).exc
       /\ result.value = NoRun

\* The report file is absent, the two other files parse.
C11_Witness ==
    /\ call.op = "from_files"
    /\ files["path_file"] = TextFile(<<"{", "}">>)
    /\ ~files["report_file"].exists
    /\ files["test_results_file"] = TextFile(<<"{", "s", ":", "1", "}">>)
    /\ result.exc = "FileNotFoundError"
    /\ result.value = NoRun

\* The values BenchmarkPlotter.benchmark can hold when a chart function is
\* called: unset, or the benchmark of an earlier create_plots call.
LeftBehind == {<<>>} \cup {<<b>> : b \in ChartBenchmarks}

IsGeneral(name) == \E i \in DOMAIN get_plot_functions : get_plot_functions[i].name = name

IsTestExecution(name) == InList(name, get_test_execution_plot_functions)

\* What the chart function of the last call yields for the arguments of that
\* call when BenchmarkPlotter.benchmark holds attr.
ChartUnder(attr) ==
    IF IsGeneral(call.name)
    THEN rendered(plot_function(
             close(NoPlots),
             get_plot_functions[CHOOSE i \in DOMAIN get_plot_functions :
                                    get_plot_functions[i].name = call.name],
             attr, call.grouped_generators))
    ELSE IF IsTestExecution(call.name)
    THEN rendered(test_execution_plot_function(close(NoPlots), call.name, benchmark,
                                               call.grouped_generators))
    ELSE rendered(per_coverage_plot_function(close(NoPlots), call.name,
                                             call.grouped_generators, call.arg[1]))

\* C12: what a chart function raises or draws for its arguments is the same
\* whatever an earlier call left in BenchmarkPlotter.benchmark: nothing, the
\* benchmark of these generators, or another benchmark.
C12_ChartFunctionsPure ==
    call.op = "plot_function"
    => \A attr \in LeftBehind :
          /\ ChartUnder(attr).exc = result.exc
          /\ ChartUnder(attr).value = result.value

UnknownName(list) ==
    \E i \in DOMAIN list : list[i] \notin Algorithms

\* C13: a create_report call of a known report type whose whitelist or
\* blacklist holds a name of no generator raises nothing, also when the
\* whitelist holds no other name (a pdf report is started without a temp
\* directory).
C13_UnknownNamesIgnored ==
    [][(/\ call'.op = "create_report"
        /\ lower(call'.report_type) \in KnownReportTypes
        /\ IsPdf(call'.report_type) => TempDir \notin DOMAIN output
        /\ UnknownName(call'.whitelist) \/ UnknownName(call'.blacklist))
       => result'.exc = NoException]_vars

\* The stop-coverages behind the bars of one series of a chart of the last
\* create_plots call: those of the run groups of the algorithm, sorted by
\* coverage, in a test-execution chart, and those of the generator's groups
\* in any other chart.
BarCoverages(chart, label) ==
    IF chart \in TestExecutionCharts
    THEN LET runs == SelectSeq(SortByCoverage(benchmark.run_groups),
                               LAMBDA run_group : run_group.algorithm = label)
         IN  [j \in DOMAIN runs |-> runs[j].stop_coverage]
    ELSE LET groups == Lookup(call.grouped_generators, label)
         IN  [j \in DOMAIN groups |-> groups[j].stop_coverage]

\* The charts of the chart mapping that are drawn with bars.
BarCharts(plots) ==
    {k \in DOMAIN plots :
        \E m \in DOMAIN plots[k].value.series : plots[k].value.series[m].kind = "bar"}

\* The bars of a series lie at c + i * (6 / n), one per coverage c, and are
\* 6 / n wide.
BarsAt(series, coverages, i, n) ==
    /\ Len(series.x) = Len(coverages)
    /\ series.width = Number(6, n)
    /\ \A j \in DOMAIN coverages :
          series.x[j] = Number(coverages[j] * n + 6 * i, n)

\* No bar of one series overlaps a bar of another series of the chart that
\* stands for the same coverage value.
BarsApart(image) ==
    \A m1, m2 \in DOMAIN image.series :
        m1 # m2 =>
            \A j \in DOMAIN image.series[m1].x, k \in DOMAIN image.series[m2].x :
                BarCoverages(image.chart, image.series[m1].label)[j]
                    = BarCoverages(image.chart, image.series[m2].label)[k]
                => LET left == image.series[m1]
                       right == image.series[m2]
                       halves == truediv(add(left.width, right.width), Integer(2)).value
                   IN  \/ ~less(sub(right.x[k], left.x[j]), halves)
                       \/ ~less(sub(left.x[j], right.x[k]), halves)

\* The position of a generator name among the keys of the mapping, from 0.
KeyIndex(grouped_generators, name) ==
    (CHOOSE i \in DOMAIN grouped_generators : grouped_generators[i].name = name) - 1

\* C14 as stated: in every bar chart create_plots returns for a mapping of
\* n generator names, the bars of the generator at position i of the
\* mapping lie at c + i * (6 / n) and are 6 / n wide, and bars of different
\* generators at one coverage value do not overlap.
C14_BarsByGeneratorIndex ==
    (call.op = "create_plots" /\ result.exc = NoException)
    => \A k \in BarCharts(result.value) :
          LET image == result.value[k].value
          IN  /\ \A m \in DOMAIN image.series :
                    BarsAt(image.series[m],
                           BarCoverages(image.chart, image.series[m].label),
                           KeyIndex(call.grouped_generators, image.series[m].label),
                           Len(call.grouped_generators))
              /\ BarsApart(image)

\* C14, amended: the bars of the i-th series drawn (from 0) lie at
\* c + i * (6 / n) and are 6 / n wide, n the number of generator names of
\* the mapping; the series are the generator names in mapping order in the
\* general charts, and the algorithms in order of first appearance among
\* the run groups sorted by coverage in the test-execution charts; bars of
\* different series at one coverage value do not overlap.
C14_BarsBySeriesIndex ==
    (call.op = "create_plots" /\ result.exc = NoException)
    => \A k \in BarCharts(result.value) :
          LET image == result.value[k].value
          IN  /\ \A m \in DOMAIN image.series :
                    BarsAt(image.series[m],
                           BarCoverages(image.chart, image.series[m].label),
                           m - 1, Len(call.grouped_generators))
              /\ image.chart \notin TestExecutionCharts
                    => [m \in DOMAIN image.series |-> image.series[m].label]
                           = Keys(call.grouped_generators)
              /\ BarsApart(image)

\* Two generators, each with a group and a run group at stop-coverage 50:
\* their bars stand side by side in the general and the test-execution
\* charts.
C14_Witness ==
    /\ call.op = "create_plots"
    /\ result.exc = NoException
    /\ Len(call.grouped_generators) = 2
    /\ HasKey(result.value, "Average Test Execution Time")
    /\ LET image == Lookup(result.value, "Average Test Execution Time")
       IN  /\ Len(image.series) = 2
           /\ image.series[1].x[1] = Integer(50)
           /\ image.series[2].x[1] = Integer(53)
    /\ \A i \in 1..2 : call.grouped_generators[i].value[1].stop_coverage = 50

\* The generator groups of a mapping, each with its generator name, in
\* mapping order.
RECURSIVE Groups(_)
Groups(grouped_generators) ==
    IF grouped_generators = <<>> THEN <<>>
    ELSE [j \in DOMAIN Head(grouped_generators).value |->
             [label |-> Head(grouped_generators).name,
              generator |-> Head(grouped_generators).value[j]]]
         \o Groups(Tail(grouped_generators))

\* The histograms the last call drew.
Histograms ==
    IF call.op = "plot_function"
    THEN {result.value[k] : k \in {i \in DOMAIN result.value : result.value[i].arg # <<>>}}
    ELSE IF call.op = "create_plots"
    THEN {result.value[k].value :
             k \in {i \in DOMAIN result.value : result.value[i].value.arg # <<>>}}
    ELSE {}

\* A histogram series shows a visit-count mapping most-visited-first: every
\* identifier once, in descending order of its visit count, and the k-th
\* weight the truncated visit count of the k-th identifier.
MostVisitedFirst(series, mapping) ==
    /\ Len(series.x) = Len(mapping)
    /\ Len(series.y) = Len(mapping)
    /\ \A i \in DOMAIN mapping : \E k \in DOMAIN series.x : series.x[k] = mapping[i].name
    /\ \A k \in DOMAIN series.x :
          /\ HasKey(mapping, series.x[k])
          /\ series.y[k].den = 1
          /\ ~less(Lookup(mapping, series.x[k]), Integer(series.y[k].num))
          /\ less(Lookup(mapping, series.x[k]), Integer(series.y[k].num + 1))
    /\ \A k \in 1..(Len(series.x) - 1) :
          /\ ~less(Lookup(mapping, series.x[k]), Lookup(mapping, series.x[k + 1]))
          /\ ~less(series.y[k], series.y[k + 1])

\* C15: a histogram for coverage value v has one series for each generator
\* group whose stop_coverage is v and none for any other group; each series
\* lists the identifiers of the group's visit-count mapping in descending
\* order of visit count with the truncated visit counts as weights, position
\* by position; the groups handed to the call are afterwards what they
\* were.
C15_HistogramMostVisitedFirst ==
    /\ \A image \in Histograms :
          LET hits == SelectSeq(Groups(call.grouped_generators),
                                LAMBDA g : g.generator.stop_coverage = image.arg[1])
          IN  /\ Len(image.series) = Len(hits)
              /\ \A m \in DOMAIN hits :
                    /\ image.series[m].label = hits[m].label
                    /\ MostVisitedFirst(image.series[m],
                                        property_lambda(image.chart, hits[m].generator))
    /\ call.op \in {"plot_function", "create_plots"}
          => \A i \in DOMAIN call.grouped_generators :
                Lookup(benchmark.report.generators_grouped, call.grouped_generators[i].name)
                    = call.grouped_generators[i].value

\* The histogram of the average vertex visits at stop-coverage 50: the
\* first generator's group holds the averages 1/2, 2, 2, drawn as v2, v3,
\* v1 with the weights 2, 2, 0; the first generator's group at 100 is not
\* drawn.
C15_Witness ==
    /\ call.op = "plot_function"
    /\ call.name = "Histogram Average Visited Vertices"
    /\ call.arg = <<50>>
    /\ result.exc = NoException
    /\ Len(call.grouped_generators[1].value) = 2
    /\ Len(result.value[1].series) = 2
    /\ result.value[1].series[1].x = <<"v2", "v3", "v1">>
    /\ result.value[1].series[1].y = <<Integer(2), Integer(2), Integer(0)>>

\* The identifiers of a visit-count mapping that were visited.
Visited(mapping) == {i \in DOMAIN mapping : mapping[i].value # Integer(0)}

\* The chart plots, for every generator group of the mapping, the share of
\* the identifiers visited among `elements` elements, in percent.
PlotsShareVisited(image, grouped_generators, visits, elements) ==
    /\ Len(image.series) = Len(grouped_generators)
    /\ \A m \in DOMAIN grouped_generators :
          /\ image.series[m].label = grouped_generators[m].name
          /\ Len(image.series[m].y) = Len(grouped_generators[m].value)
          /\ \A j \in DOMAIN grouped_generators[m].value :
                image.series[m].y[j] =
                    Number(100 * Cardinality(Visited(grouped_generators[m].value[j][visits])),
                           elements)

\* C16: in the chart mapping create_plots returns, 'Average Vertex Visits %'
\* plots for each generator group the number of vertices with a nonzero
\* average visit count, divided by the vertex count of the model of the
\* benchmark handed to that call, times 100, and 'Average Edge Visits %'
\* the same for the edges.
C16_ShareOfVisitedElements ==
    (call.op = "create_plots" /\ result.exc = NoException)
    => /\ PlotsShareVisited(Lookup(result.value, "Average Vertex Visits %"),
                            call.grouped_generators, "average_vertex_visits_individual",
                            benchmark.report.model.vertices)
       /\ PlotsShareVisited(Lookup(result.value, "Average Edge Visits %"),
                            call.grouped_generators, "average_edge_visits_individual",
                            benchmark.report.model.edges)

\* A group with one of three vertices never visited is plotted at 200/3
\* percent, and a group with one of two edges never visited at 50 percent.
C16_Witness ==
    /\ call.op = "create_plots"
    /\ result.exc = NoException
    /\ benchmark.report.model = DefaultModel
    /\ Len(call.grouped_generators) = 2
    /\ Lookup(result.value, "Average Vertex Visits %").series[1].y[1] = Number(200, 3)
    /\ Lookup(result.value, "Average Edge Visits %").series[2].y[1] = Integer(50)

\* A generation time or a model size that is zero.
ZeroDivisor(b, grouped_generators) ==
    \/ b.report.model.vertices = 0
    \/ b.report.model.edges = 0
    \/ \E m \in DOMAIN grouped_generators : \E j \in DOMAIN grouped_generators[m].value :
          grouped_generators[m].value[j].average_generation_time = Integer(0)

\* C17: create_plots on a non-empty mapping returns its chart mapping also
\* when the average generation time of a group is zero or the model has no
\* vertices or no edges.
C17_ZeroDivisorNoCrash ==
    (/\ call.op = "create_plots"
     /\ Len(call.grouped_generators) > 0
     /\ ZeroDivisor(benchmark, call.grouped_generators))
    => /\ result.exc = NoException
       /\ HasKey(result.value, "Size over Time")
       /\ HasKey(result.value, "Average Vertex Visits %")
       /\ HasKey(result.value, "Average Edge Visits %")

\* A test-execution chart function was run during the last call.
TestExecutionAttempted ==
    \E e \in DOMAIN log :
        /\ log[e].event = "subplots"
        /\ log[e].path[1] \in TestExecutionCharts

\* The run groups of the benchmark whose algorithm is a key of the mapping.
KeptRunGroups(b, grouped_generators) ==
    {i \in DOMAIN b.run_groups : HasKey(grouped_generators, b.run_groups[i].algorithm)}

\* The bars of a test-execution chart, as (series, bar) pairs.
TestBars(image) ==
    {<<m, j>> \in (DOMAIN image.series) \X (1..MaxRunGroups) : j \in DOMAIN image.series[m].x}

\* The bar <<m, j>> of the chart shows the run group.
ShowsRunGroup(image, bar, run_group, n) ==
    /\ image.series[bar[1]].label = run_group.algorithm
    /\ image.series[bar[1]].x[bar[2]] = Number(run_group.stop_coverage * n + 6 * (bar[1] - 1), n)
    /\ image.series[bar[1]].y[bar[2]] = run_group_lambda(image.chart, run_group)

\* C18: on a non-empty mapping create_plots runs the test-execution chart
\* functions exactly when every run group of the benchmark was successful,
\* those of generators outside the mapping included; a test-execution chart
\* it returns shows one bar for each run group whose algorithm is a key of
\* the mapping and no other bar, and a test-execution chart function that
\* found no such run group has drawn nothing.
C18_FilterDrawsGuardDoesNot ==
    (call.op = "create_plots" /\ Len(call.grouped_generators) > 0)
    => /\ TestExecutionAttempted
             <=> \A i \in DOMAIN benchmark.run_groups : benchmark.run_groups[i].successful_runs
       /\ \A k \in DOMAIN result.value :
             result.value[k].name \in TestExecutionCharts
             => LET image == result.value[k].value
                    kept == KeptRunGroups(benchmark, call.grouped_generators)
                IN  /\ Cardinality(TestBars(image)) = Cardinality(kept)
                    /\ \A i \in kept : \E bar \in TestBars(image) :
                          ShowsRunGroup(image, bar, benchmark.run_groups[i],
                                        Len(call.grouped_generators))
       /\ (TestExecutionAttempted /\ KeptRunGroups(benchmark, call.grouped_generators) = {})
             => figures[Len(figures)].series = <<>>

\* The mapping holds the first generator only, its run group was
\* successful, the run group of the other generator was not: no
\* test-execution chart function is run.
C18_Witness ==
    /\ call.op = "create_plots"
    /\ Keys(call.grouped_generators) = <<GeneratorNames[1]>>
    /\ Len(benchmark.run_groups) = 2
    /\ \E i, j \in DOMAIN benchmark.run_groups :
          /\ benchmark.run_groups[i].algorithm = GeneratorNames[1]
          /\ benchmark.run_groups[i].successful_runs
          /\ benchmark.run_groups[j].algorithm = GeneratorNames[2]
          /\ ~benchmark.run_groups[j].successful_runs
    /\ result.exc = NoException
    /\ ~TestExecutionAttempted
    /\ \A name \in TestExecutionCharts : ~HasKey(result.value, name)

\* The pyplot calls, started with `open` figures open, never leave more than
\* one figure open; every chart function is entered right after a plt.close()
\* that left no figure open, and every save comes right after the chart
\* function, with its figure the only one open.
OneFigureAtATime(events, open) ==
    /\ open <= 1
    /\ \A k \in DOMAIN events :
          /\ events[k].open <= 1
          /\ events[k].event = "subplots"
                => /\ k > 1
                   /\ events[k - 1].event = "close"
                   /\ events[k - 1].open = 0
                   /\ events[k].open = 1
          /\ events[k].event = "savefig"
                => /\ events[k - 1].event = "subplots"
                   /\ events[k].open = 1

\* The image stored under a key shows the figure of the chart function the
\* key names.
SavedFromOwnFigure(key, image) ==
    \/ /\ IsGeneral(key) \/ IsTestExecution(key)
       /\ image.chart = key
       /\ image.arg = <<>>
    \/ /\ InList(image.chart, get_per_coverage_plot_functions)
       /\ Len(image.arg) = 1
       /\ key = image.chart \o " - " \o ToString(image.arg[1]) \o "%"

\* C19: during a create_plots call at most one figure is open at any time,
\* whatever figure the call before left open: every chart function is run
\* right after a plt.close() that left none open and opens one figure, every
\* image is saved right after its chart function returned, from the figure
\* of the chart function its key names, and one image is saved per key.
C19_OneFigureAtATime ==
    [][call'.op = "create_plots"
       => /\ OneFigureAtATime(log', Len(figures))
          /\ Len(figures') <= 1
          /\ \A k \in DOMAIN result'.value :
                SavedFromOwnFigure(result'.value[k].name, result'.value[k].value)
          /\ result'.exc = NoException
                => /\ Cardinality({e \in DOMAIN log' : log'[e].event = "savefig"})
                          = Len(result'.value)
                   /\ figures' = <<result'.value[Len(result'.value)].value>>]_vars

\* A call that drew the sixteen general charts, the three test-execution
\* charts and the four histograms of two coverage values, each between a
\* plt.close() and a save, and left the last histogram open.
C19_Witness ==
    /\ call.op = "create_plots"
    /\ result.exc = NoException
    /\ Len(result.value) = 27
    /\ Len(log) = 1 + 3 * 27
    /\ log[1].event = "close"
    /\ log[2].event = "close"
    /\ log[3].event = "subplots"
    /\ log[4].event = "savefig"
    /\ figures = <<result.value[27].value>>
    /\ figures[1].chart = "Histogram Average Visited Edges"

====
